---- MODULE Spec2Model ----
(***************************************************************************)
(* examples/sample2_implicit_udp_callback.py: an EEIPClient session with a *)
(* UDP receive callback (MessageProcessor.process) that acknowledges       *)
(* sensor events, a 30 s foreground loop, and a try/finally teardown.      *)
(*                                                                         *)
(* The foreground is main(); the background is the client's receive path,  *)
(* which calls the installed callback once per datagram, possibly          *)
(* overlapping.  The client class itself (eeip.eipclient.EEIPClient) is    *)
(* modelled by the lib_* operators.                                        *)
(***************************************************************************)
EXTENDS Integers, Sequences, FiniteSets, Bags

VARIABLES
    pc,             \* main(): the statement about to run
    i,              \* main(): iterations of `for i in range(30)` completed
    exc,            \* main(): the exception in flight ("none" when there is none)
    calls,          \* main(): the client calls made, in order ("name!" when the call raised)
    lastRead,       \* main(): the value line 61 read from eeipclient.t_o_iodata
    registered,     \* client: a session is registered
    connected,      \* client: the implicit-messaging connection is open
    udp_callback,   \* client: the installed receive callback
    t_o_iodata,     \* client: the latest cyclic input payload
    threads,        \* receive path: the callback invocations in progress
    delivered,      \* receive path: datagrams delivered so far
    qualDispatched, \* receive path: datagrams with bit 0 set handed to the callback
    sent            \* client: send_udp_explicitly calls so far, in order, each with the
                    \* datagram that triggered it

vars == <<pc, i, exc, calls, lastRead, registered, connected, udp_callback,
          t_o_iodata, threads, delivered, qualDispatched, sent>>

mainVars == <<pc, i, exc, calls, lastRead>>
clientVars == <<registered, connected, udp_callback>>
recvVars == <<t_o_iodata, threads, delivered, qualDispatched, sent>>

----------------------------------------------------------------------------
(* Bounds of the model *)

MaxDatagrams == 2
MaxInFlight == 2
MaxTeardownCalls == 6

(* Program constants *)

LoopCount == 30
AckByte == 172
SensorMask == 1
PrintWidth == 8

(* Datagrams the controller sends in Spec: the spec's scenarios A, B, C and
   a nine-byte payload whose later bytes must not matter and of which line 61
   prints eight. *)
Payloads == { <<>>, <<1>>, <<2>>, <<1, 1, 2, 3, 4, 5, 6, 7, 9>> }

Byte == 0..255

(* Datagrams of SpecPolicy: every first byte, and some second bytes. *)
AllPayloads ==
    { <<>> } \cup { <<b>> : b \in Byte } \cup { <<b, c>> : b \in {0, 1, 254, 255}, c \in {0, 1} }

----------------------------------------------------------------------------
(* Pure helpers *)

RECURSIVE BitAnd(_, _)
BitAnd(a, b) ==
    IF a = 0 \/ b = 0 THEN 0
    ELSE (a % 2) * (b % 2) + 2 * BitAnd(a \div 2, b \div 2)

Take(s, n) == SubSeq(s, 1, IF Len(s) < n THEN Len(s) ELSE n)

(* line 30 with the bit test forgotten: `if data:` *)
SensorEvent_AnyData(data) == Len(data) > 0

(* line 30 with the wrong bit tested: data[0] & 0x02 *)
SensorEvent_WrongBit(data) == Len(data) > 0 /\ BitAnd(data[1], 2 * SensorMask) # 0

(* `data and (data[0] & 0x01)` of line 30, by Python's truth rules: a bytes
   object is true when it is not empty, an int when it is not 0. *)
SensorEvent(data) == Len(data) > 0 /\ BitAnd(data[1], SensorMask) # 0

(* ack = bytes([0xAC]) of line 32 *)
Ack == <<AckByte>>

Terminal == {"done", "failed"}

----------------------------------------------------------------------------
(* The client (eeip.eipclient.EEIPClient), from its contract *)

lib_set_udp_receive_callback(handler) == udp_callback' = handler

(* register_session: a session handle, or RegistrationError *)
lib_register_session(ok) == registered' = ok

(* forward_open: the connection is open, or ConnectionError and the session
   stays registered *)
lib_forward_open(ok) == connected' = ok

(* forward_close that flips the connection instead of closing it *)
lib_forward_close_Toggles == connected' = ~connected

(* forward_close that returns with the receive path still running *)
lib_forward_close_KeepsDelivering == connected' = connected

(* forward_close returns: the connection is closed and delivery has stopped *)
lib_forward_close == connected' = FALSE

(* unregister_session returns: the session is gone *)
lib_unregister_session == registered' = FALSE

(* The receive path delivers only on an open connection of a live process. *)
lib_receiving == connected /\ pc \notin Terminal

(* What the receive path does with an exception that leaves the callback: it
   is reported and delivery goes on, so nothing of the client changes. *)
lib_callback_raised == UNCHANGED clientVars

----------------------------------------------------------------------------
(* Init: main() after lines 43-44 (client and processor constructed) *)

Init ==
    /\ pc = "set_udp_receive_callback"
    /\ i = 0
    /\ exc = "none"
    /\ calls = <<>>
    /\ lastRead = <<>>
    /\ registered = FALSE
    /\ connected = FALSE
    /\ udp_callback = "none"
    /\ t_o_iodata = <<>>
    /\ threads = EmptyBag
    /\ delivered = 0
    /\ qualDispatched = 0
    /\ sent = <<>>

----------------------------------------------------------------------------
(* main(), lines 39-69 *)

(* line 47 *)
SetUdpReceiveCallback ==
    /\ pc = "set_udp_receive_callback"
    /\ lib_set_udp_receive_callback("process")
    /\ calls' = Append(calls, "set_udp_receive_callback")
    /\ pc' = "register_session"
    /\ UNCHANGED <<i, exc, lastRead, registered, connected, recvVars>>

(* line 50 inside a handler that swallows RegistrationError and goes on *)
RegisterSession_IgnoresError ==
    /\ pc = "register_session"
    /\ \E r \in BOOLEAN : registered' = r
    /\ calls' = Append(calls, "register_session")
    /\ pc' = "forward_open"
    /\ UNCHANGED <<i, exc, lastRead, connected, udp_callback, recvVars>>

(* line 50 moved inside the try block: a RegistrationError runs the finally
   block *)
RegisterSession_InsideTry ==
    /\ pc = "register_session"
    /\ \/ /\ lib_register_session(TRUE)
          /\ calls' = Append(calls, "register_session")
          /\ pc' = "forward_open"
          /\ exc' = exc
       \/ /\ lib_register_session(FALSE)
          /\ calls' = Append(calls, "register_session!")
          /\ pc' = "forward_close"
          /\ exc' = "RegistrationError"
    /\ UNCHANGED <<i, lastRead, connected, udp_callback, recvVars>>

(* line 50: the call returns a handle, raises RegistrationError, or is
   interrupted; outside the try block an exception ends main() *)
RegisterSession ==
    /\ pc = "register_session"
    /\ \/ /\ lib_register_session(TRUE)
          /\ calls' = Append(calls, "register_session")
          /\ pc' = "forward_open"
          /\ exc' = exc
       \/ /\ lib_register_session(FALSE)
          /\ calls' = Append(calls, "register_session!")
          /\ pc' = "failed"
          /\ exc' = "RegistrationError"
       \/ /\ \E r \in BOOLEAN : lib_register_session(r)
          /\ calls' = Append(calls, "register_session!")
          /\ pc' = "failed"
          /\ exc' = "KeyboardInterrupt"
    /\ UNCHANGED <<i, lastRead, connected, udp_callback, recvVars>>

(* line 54 moved inside the try block: a ConnectionError or an interruption
   during the call runs the handlers and the finally block *)
ForwardOpen_InsideTry ==
    /\ pc = "forward_open"
    /\ \/ /\ lib_forward_open(TRUE)
          /\ calls' = Append(calls, "forward_open")
          /\ pc' = "loop"
          /\ exc' = exc
       \/ /\ lib_forward_open(FALSE)
          /\ calls' = Append(calls, "forward_open!")
          /\ pc' = "forward_close"
          /\ exc' = "ConnectionError"
       \/ /\ \E c \in BOOLEAN : lib_forward_open(c)
          /\ calls' = Append(calls, "forward_open!")
          /\ pc' = "except"
          /\ exc' = "KeyboardInterrupt"
    /\ UNCHANGED <<i, lastRead, registered, udp_callback, recvVars>>

(* line 54: the call returns, raises ConnectionError, or is interrupted;
   still outside the try block *)
ForwardOpen ==
    /\ pc = "forward_open"
    /\ \/ /\ lib_forward_open(TRUE)
          /\ calls' = Append(calls, "forward_open")
          /\ pc' = "loop"
          /\ exc' = exc
       \/ /\ lib_forward_open(FALSE)
          /\ calls' = Append(calls, "forward_open!")
          /\ pc' = "failed"
          /\ exc' = "ConnectionError"
       \/ /\ \E c \in BOOLEAN : lib_forward_open(c)
          /\ calls' = Append(calls, "forward_open!")
          /\ pc' = "failed"
          /\ exc' = "KeyboardInterrupt"
    /\ UNCHANGED <<i, lastRead, registered, udp_callback, recvVars>>

(* line 61 reading one byte of the buffer at a time: t_o_iodata[:1] *)
LoopPrint_ReadsOneByte ==
    /\ pc = "loop"
    /\ IF i < LoopCount
         THEN /\ lastRead' = Take(t_o_iodata, 1)
              /\ pc' = "sleep"
         ELSE /\ lastRead' = lastRead
              /\ pc' = "forward_close"
    /\ UNCHANGED <<i, exc, calls, clientVars, recvVars>>

(* line 61 in a loop that empties the buffer once it has been printed *)
LoopPrint_ClearsCache ==
    /\ pc = "loop"
    /\ IF i < LoopCount
         THEN /\ lastRead' = t_o_iodata
              /\ t_o_iodata' = <<>>
              /\ pc' = "sleep"
         ELSE /\ lastRead' = lastRead
              /\ t_o_iodata' = t_o_iodata
              /\ pc' = "forward_close"
    /\ UNCHANGED <<i, exc, calls, clientVars, threads, delivered, qualDispatched, sent>>

(* lines 59-61: the next iteration reads eeipclient.t_o_iodata once and
   prints it, or range(30) is exhausted and control falls into the finally
   block *)
LoopPrint ==
    /\ pc = "loop"
    /\ IF i < LoopCount
         THEN /\ lastRead' = t_o_iodata
              /\ pc' = "sleep"
         ELSE /\ lastRead' = lastRead
              /\ pc' = "forward_close"
    /\ UNCHANGED <<i, exc, calls, clientVars, recvVars>>

(* line 61: the list that is printed, list(eeipclient.t_o_iodata[:8]) *)
Printed == Take(lastRead, PrintWidth)

(* line 62; the value read by line 61 is gone *)
Sleep ==
    /\ pc = "sleep"
    /\ i' = i + 1
    /\ lastRead' = <<>>
    /\ pc' = "loop"
    /\ UNCHANGED <<exc, calls, clientVars, recvVars>>

(* KeyboardInterrupt inside the try block: line 63 catches it *)
LoopInterrupt ==
    /\ pc \in {"loop", "sleep"}
    /\ pc' = "except"
    /\ exc' = "KeyboardInterrupt"
    /\ lastRead' = <<>>
    /\ UNCHANGED <<i, calls, clientVars, recvVars>>

(* line 64: the handler prints and the interruption is absorbed; the finally
   block follows *)
ExceptKeyboardInterrupt ==
    /\ pc = "except"
    /\ pc' = "forward_close"
    /\ exc' = "none"
    /\ UNCHANGED <<i, calls, lastRead, clientVars, recvVars>>

(* any other exception inside the try block: the finally block runs with the
   exception pending *)
LoopError ==
    /\ pc \in {"loop", "sleep"}
    /\ pc' = "forward_close"
    /\ exc' = "Error"
    /\ lastRead' = <<>>
    /\ UNCHANGED <<i, calls, clientVars, recvVars>>

(* the finally block without line 67: straight to unregister_session *)
ForwardClose_Omitted ==
    /\ pc = "forward_close"
    /\ pc' = "unregister_session"
    /\ UNCHANGED <<i, exc, calls, lastRead, clientVars, recvVars>>

(* line 67: forward_close returns, or raises and the finally block is left
   with the connection in either state *)
ForwardClose ==
    /\ pc = "forward_close"
    /\ \/ /\ lib_forward_close
          /\ calls' = Append(calls, "forward_close")
          /\ pc' = "unregister_session"
          /\ exc' = exc
       \/ /\ \E c \in {connected, FALSE} : connected' = c
          /\ calls' = Append(calls, "forward_close!")
          /\ pc' = "failed"
          /\ exc' = "CloseError"
    /\ UNCHANGED <<i, lastRead, registered, udp_callback, recvVars>>

(* line 68: unregister_session returns, or raises and the finally block is
   left with the session in either state *)
UnregisterSession ==
    /\ pc = "unregister_session"
    /\ \/ /\ lib_unregister_session
          /\ calls' = Append(calls, "unregister_session")
          /\ pc' = "print_done"
          /\ exc' = exc
       \/ /\ \E r \in {registered, FALSE} : registered' = r
          /\ calls' = Append(calls, "unregister_session!")
          /\ pc' = "failed"
          /\ exc' = "UnregisterError"
    /\ UNCHANGED <<i, lastRead, connected, udp_callback, recvVars>>

(* line 69, then the end of the finally block: main() returns, or the
   exception that was pending is raised again *)
PrintDone ==
    /\ pc = "print_done"
    /\ pc' = IF exc = "none" THEN "done" ELSE "failed"
    /\ UNCHANGED <<i, exc, calls, lastRead, clientVars, recvVars>>

Main ==
    \/ SetUdpReceiveCallback
    \/ RegisterSession
    \/ ForwardOpen
    \/ LoopPrint
    \/ Sleep
    \/ LoopInterrupt
    \/ ExceptKeyboardInterrupt
    \/ LoopError
    \/ ForwardClose
    \/ UnregisterSession
    \/ PrintDone

----------------------------------------------------------------------------
(* The receive path and MessageProcessor.process, lines 27-36 *)

Invocation(at, p) == [pc |-> at, data |-> p]

InFlight == BagCardinality(threads)

Moved(r, to) == (threads (-) SetToBag({r})) (+) SetToBag({Invocation(to, r.data)})

Ended(r) == threads (-) SetToBag({r})

(* A datagram arrives: the client stores it and calls the installed callback
   in a thread of the receive path (line 28 prints the datagram). *)
Deliver(p) ==
    /\ lib_receiving
    /\ delivered < MaxDatagrams
    /\ InFlight < MaxInFlight
    /\ delivered' = delivered + 1
    /\ t_o_iodata' = p
    /\ IF udp_callback = "process"
         THEN /\ threads' = threads (+) SetToBag({Invocation("test", p)})
              /\ qualDispatched' = qualDispatched + (IF Len(p) > 0 /\ p[1] % 2 = 1 THEN 1 ELSE 0)
         ELSE UNCHANGED <<threads, qualDispatched>>
    /\ UNCHANGED <<mainVars, clientVars, sent>>

(* line 30 in a callback that also empties the client's input buffer *)
ProcessTest_ConsumesInput(r) ==
    /\ r.pc = "test"
    /\ threads' = (threads (-) SetToBag({r})) (+)
                     SetToBag({[pc |-> IF SensorEvent(r.data) THEN "send" ELSE "else", data |-> r.data]})
    /\ t_o_iodata' = <<>>
    /\ UNCHANGED <<mainVars, clientVars, delivered, qualDispatched, sent>>

(* line 30 *)
ProcessTest(r) ==
    /\ r.pc = "test"
    /\ threads' = Moved(r, IF SensorEvent(r.data) THEN "send" ELSE "else")
    /\ UNCHANGED <<mainVars, clientVars, t_o_iodata, delivered, qualDispatched, sent>>

(* lines 31-33 with a handler that gives up on the first SendError and closes
   the connection *)
ProcessSend_AbortsOnError(r) ==
    /\ r.pc = "send"
    /\ \/ /\ sent' = Append(sent, [ack |-> <<AckByte>>, ok |-> TRUE, data |-> r.data])
          /\ threads' = (threads (-) SetToBag({r})) (+) SetToBag({[pc |-> "sent", data |-> r.data]})
          /\ UNCHANGED clientVars
       \/ /\ sent' = Append(sent, [ack |-> <<AckByte>>, ok |-> FALSE, data |-> r.data])
          /\ threads' = threads (-) SetToBag({r})
          /\ connected' = FALSE
          /\ UNCHANGED <<registered, udp_callback>>
    /\ UNCHANGED <<mainVars, t_o_iodata, delivered, qualDispatched>>

(* lines 31-33 with the acknowledgment sent twice *)
ProcessSend_SendsTwice(r) ==
    /\ r.pc = "send"
    /\ sent' = sent \o << [ack |-> <<AckByte>>, ok |-> TRUE, data |-> r.data], [ack |-> <<AckByte>>, ok |-> TRUE, data |-> r.data] >>
    /\ threads' = (threads (-) SetToBag({r})) (+) SetToBag({[pc |-> "sent", data |-> r.data]})
    /\ UNCHANGED <<mainVars, clientVars, t_o_iodata, delivered, qualDispatched>>

(* lines 31-33: send_udp_explicitly(ack) returns, or raises SendError, which
   nothing in process() catches: the invocation ends with the exception *)
ProcessSend(r) ==
    /\ r.pc = "send"
    /\ \/ /\ sent' = Append(sent, [ack |-> Ack, ok |-> TRUE, data |-> r.data])
          /\ threads' = Moved(r, "sent")
          /\ UNCHANGED clientVars
       \/ /\ sent' = Append(sent, [ack |-> Ack, ok |-> FALSE, data |-> r.data])
          /\ threads' = Ended(r)
          /\ lib_callback_raised
    /\ UNCHANGED <<mainVars, t_o_iodata, delivered, qualDispatched>>

(* line 34 or line 36, then process() returns *)
ProcessReturn(r) ==
    /\ r.pc \in {"sent", "else"}
    /\ threads' = Ended(r)
    /\ UNCHANGED <<mainVars, clientVars, t_o_iodata, delivered, qualDispatched, sent>>

Receive ==
    \/ \E p \in Payloads : Deliver(p)
    \/ \E r \in BagToSet(threads) : ProcessTest(r)
    \/ \E r \in BagToSet(threads) : ProcessSend(r)
    \/ \E r \in BagToSet(threads) : ProcessReturn(r)

----------------------------------------------------------------------------

Next == Main \/ Receive

Spec == Init /\ [][Next]_vars

----------------------------------------------------------------------------
(* The acknowledgment policy on every first byte: main() is in its first
   sleep and one datagram, any of AllPayloads, has just been handed to the
   callback. *)

InitPolicy ==
    /\ pc = "sleep"
    /\ i = 0
    /\ exc = "none"
    /\ calls = <<"set_udp_receive_callback", "register_session", "forward_open">>
    /\ lastRead = <<>>
    /\ registered = TRUE
    /\ connected = TRUE
    /\ udp_callback = "process"
    /\ \E p \in AllPayloads :
          /\ t_o_iodata = p
          /\ threads = SetToBag({Invocation("test", p)})
          /\ qualDispatched = (IF Len(p) > 0 /\ p[1] % 2 = 1 THEN 1 ELSE 0)
    /\ delivered = 1
    /\ sent = <<>>

NextPolicy ==
    \/ \E r \in BagToSet(threads) : ProcessTest(r)
    \/ \E r \in BagToSet(threads) : ProcessSend(r)
    \/ \E r \in BagToSet(threads) : ProcessReturn(r)

SpecPolicy == InitPolicy /\ [][NextPolicy]_vars

----------------------------------------------------------------------------
(* Teardown called repeatedly (the idempotence test of the spec): from the
   state in which main() enters its finally block, with no datagram in
   flight, a caller makes up to MaxTeardownCalls calls of forward_close and
   unregister_session, unregister_session only once the connection is
   closed. *)

InitTeardown ==
    /\ pc = "forward_close"
    /\ i \in {0, LoopCount}
    /\ exc = "none"
    /\ calls = <<"set_udp_receive_callback", "register_session", "forward_open">>
    /\ lastRead = <<>>
    /\ registered = TRUE
    /\ connected = TRUE
    /\ udp_callback = "process"
    /\ t_o_iodata = <<>>
    /\ threads = EmptyBag
    /\ delivered = 0
    /\ qualDispatched = 0
    /\ sent = <<>>

TeardownCalls == Len(calls) - 3

(* close(): closes an open connection or raises; a no-op, never an error,
   when the connection is already closed *)
CallClose ==
    /\ TeardownCalls < MaxTeardownCalls
    /\ \/ /\ lib_forward_close
          /\ calls' = Append(calls, "forward_close")
       \/ /\ connected
          /\ connected' = connected
          /\ calls' = Append(calls, "forward_close!")
    /\ UNCHANGED <<pc, i, exc, lastRead, registered, udp_callback, recvVars>>

(* unregister(): ends a registered session or raises; a no-op, never an
   error, when the session is already unregistered *)
CallUnregister ==
    /\ TeardownCalls < MaxTeardownCalls
    /\ ~connected
    /\ \/ /\ lib_unregister_session
          /\ calls' = Append(calls, "unregister_session")
       \/ /\ registered
          /\ registered' = registered
          /\ calls' = Append(calls, "unregister_session!")
    /\ UNCHANGED <<pc, i, exc, lastRead, connected, udp_callback, recvVars>>

NextTeardown == CallClose \/ CallUnregister

SpecTeardown == InitTeardown /\ [][NextTeardown]_vars

----------------------------------------------------------------------------
(* What main() has called so far *)

(* the call returned normally *)
Returned(name) == \E k \in DOMAIN calls : calls[k] = name

(* the call raised *)
Raised(name) == \E k \in DOMAIN calls : calls[k] = name \o "!"

(* times the call was made, whatever its outcome *)
Invoked(name) == Cardinality({k \in DOMAIN calls : calls[k] \in {name, name \o "!"}})

(* position of the first such call, 0 when there is none *)
FirstCall(name) ==
    IF Invoked(name) = 0 THEN 0
    ELSE CHOOSE k \in DOMAIN calls :
            /\ calls[k] \in {name, name \o "!"}
            /\ \A j \in DOMAIN calls : calls[j] \in {name, name \o "!"} => k <= j

RunEnded == pc \in Terminal

----------------------------------------------------------------------------
(* C1: teardown-always.  However the run leaves the monitoring phase, and
   also when forward_open raises ConnectionError after register_session
   returned, unregister_session has been invoked exactly once by the time
   the run has ended. *)
C1_TeardownAlways ==
    (RunEnded /\ (Returned("forward_open") \/ exc = "ConnectionError"))
        => Invoked("unregister_session") = 1

(* C2: on every exit from the monitoring phase (the 30 iterations run out,
   an interruption, an error), by the end of the run forward_close and
   unregister_session have each been executed exactly once, forward_close
   first. *)
C2_CloseThenUnregisterOnce ==
    (RunEnded /\ Returned("forward_open"))
        => /\ Invoked("forward_close") = 1
           /\ Invoked("unregister_session") = 1
           /\ FirstCall("forward_close") < FirstCall("unregister_session")

(* C3: an error in forward_close does not stop teardown: when forward_close
   has raised, unregister_session has still been attempted by the end of the
   run. *)
C3_TeardownStepsIndependent ==
    (RunEnded /\ Raised("forward_close")) => Invoked("unregister_session") = 1

----------------------------------------------------------------------------
(* The reference policy of the acknowledgment decision: bit 0 of the first
   byte of a non-empty payload *)
Qualifies(p) == Len(p) > 0 /\ p[1] % 2 = 1

SendStep == Len(sent') = Len(sent) + 1

SendFails == SendStep /\ ~sent'[Len(sent')].ok

(* C4: a failed acknowledgment send is not fatal.  The step in which
   send_udp_explicitly raises is recorded as a failed send and changes
   nothing of main() and nothing of the client: main() stays where it is in
   the monitoring loop, the session stays registered, the connection open,
   the callback installed and the receive path delivering. *)
C4_SendErrorNonFatal ==
    [][SendFails => /\ UNCHANGED <<mainVars, clientVars>>
                    /\ lib_receiving' = lib_receiving]_vars

(* a send failed during monitoring, and a later acknowledgment was still
   sent while main() was in its loop *)
C4_Witness ==
    /\ pc \in {"loop", "sleep"}
    /\ lib_receiving
    /\ Len(sent) = 2
    /\ ~sent[1].ok
    /\ sent[2].ok

(* C5: the decision of line 30 is the reference policy.  An invocation is at
   or past the send exactly when its payload is non-empty with bit 0 of the
   first byte set, it is in the else branch exactly when the payload is empty
   or has that bit clear, and every datagram sent is the one byte 0xAC. *)
C5_DecisionIsReferencePolicy ==
    /\ \A r \in BagToSet(threads) :
          /\ r.pc \in {"send", "sent"} => Qualifies(r.data)
          /\ r.pc = "else" => ~Qualifies(r.data)
    /\ \A k \in DOMAIN sent : sent[k].ack = <<172>>
    /\ threads = EmptyBag => Len(sent) = qualDispatched

(* the payload 0xFF has been acknowledged *)
C5_Witness ==
    /\ \E r \in BagToSet(threads) : r.pc = "sent" /\ r.data = <<255>>
    /\ sent = << [ack |-> <<172>>, ok |-> TRUE, data |-> <<255>>] >>

(* invocations that have not sent yet and will *)
PendingSends ==
    LET S == {r \in BagToSet(threads) : r.pc = "send" \/ (r.pc = "test" /\ Qualifies(r.data))}
        RECURSIVE Sum(_)
        Sum(T) == IF T = {} THEN 0
                  ELSE LET r == CHOOSE x \in T : TRUE
                       IN CopiesIn(r, threads) + Sum(T \ {r})
    IN Sum(S)

(* C6: no acknowledgment is duplicated or lost.  The sends made so far plus
   the sends still owed by invocations in progress equal the number of
   qualifying datagrams dispatched; with no invocation in progress the sends
   equal the qualifying datagrams, and each send carries 0xAC. *)
C6_OneSendPerQualifyingDatagram ==
    /\ Len(sent) + PendingSends = qualDispatched
    /\ threads = EmptyBag => Len(sent) = qualDispatched
    /\ \A k \in DOMAIN sent : sent[k].ack = Ack

(* two overlapping invocations of qualifying datagrams: one has sent, the
   other is about to *)
C6_Witness ==
    /\ \E r \in BagToSet(threads) : r.pc = "sent"
    /\ \E r \in BagToSet(threads) : r.pc = "send"
    /\ qualDispatched = 2
    /\ Len(sent) = 1

----------------------------------------------------------------------------
(* The receive path calls the installed callback *)
InvocationStarts == BagCardinality(threads') = BagCardinality(threads) + 1

(* C7 as claimed: once forward_close has returned, the callback is not
   invoked again and no acknowledgment send is started. *)
C7_QuietAfterClose ==
    [][Returned("forward_close") => ~InvocationStarts /\ ~SendStep]_vars

(* C7 as the code has it: once forward_close has returned, the callback is
   not invoked again; an invocation that was already running when
   forward_close returned may still send its acknowledgment. *)
C7_NoInvocationAfterClose ==
    [][Returned("forward_close") => ~InvocationStarts]_vars

(* forward_close has returned while an invocation is about to send *)
C7_Witness ==
    /\ pc = "unregister_session"
    /\ Returned("forward_close")
    /\ ~connected
    /\ \E r \in BagToSet(threads) : r.pc = "send"

(* The lifecycle of section 4.1, read off the client and the calls made:
   0 Unregistered, 1 Registered, 3 Connected and Monitoring (the callback is
   already installed when forward_open returns), 4 Closing (forward_close
   has been called), 5 Unregistered again. *)
Lifecycle ==
    IF ~registered THEN (IF Invoked("unregister_session") > 0 THEN 5 ELSE 0)
    ELSE IF Invoked("forward_close") > 0 THEN 4
    ELSE IF connected THEN 3
    ELSE 1

LifecycleOrder == { <<0, 1>>, <<1, 3>>, <<3, 4>>, <<4, 5>> }

(* C8 as claimed: the callback is installed only once register_session and
   forward_open have both succeeded, never while the lifecycle is
   Unregistered or Registered; and the lifecycle moves only forward. *)
C8_InstalledOnlyInMonitoring ==
    /\ udp_callback = "process" => Lifecycle \notin {0, 1}
    /\ udp_callback = "process" => Returned("register_session") /\ Returned("forward_open")

(* C8 as the code has it: the callback is installed by line 47, before
   register_session, and stays installed; it is invoked only while the
   lifecycle is Monitoring, after register_session and forward_open both
   returned; and the lifecycle moves only along Unregistered, Registered,
   Connected/Monitoring, Closing, Unregistered. *)
C8_InvokedOnlyInMonitoring ==
    [][/\ InvocationStarts => /\ Lifecycle = 3
                              /\ Returned("register_session")
                              /\ Returned("forward_open")
       /\ Returned("set_udp_receive_callback") => udp_callback' = "process"
       /\ Lifecycle' # Lifecycle => <<Lifecycle, Lifecycle'>> \in LifecycleOrder]_vars

(* the callback is installed while the session is not yet registered, and
   later runs in Monitoring *)
C8_Witness ==
    /\ udp_callback = "process"
    /\ Lifecycle = 3
    /\ threads # EmptyBag
    /\ calls[1] = "set_udp_receive_callback"
    /\ calls[2] = "register_session"

(* C9: every connect, close and acknowledgment send happens while the
   session is registered.  Only sends made while main() is still running are
   held against the claim. *)
C9_IoRequiresSession ==
    [][/\ SendStep /\ ~RunEnded => registered
       /\ Invoked("forward_open")' > Invoked("forward_open") => registered
       /\ Invoked("forward_close")' > Invoked("forward_close") => registered]_vars

(* C10: the connection never outlives the session: whenever the connection
   is open the session is registered. *)
C10_ConnectionWithinSession == connected => registered

(* forward_close has returned and the session is still registered: the
   connection was closed first *)
C10_Witness ==
    /\ pc = "unregister_session"
    /\ Returned("forward_close")
    /\ ~connected
    /\ registered
    /\ delivered > 0

----------------------------------------------------------------------------
(* C11: a RegistrationError is fatal.  When register_session has raised it,
   main() has ended with that error, register_session was called once and
   not again, forward_open and the loop were never entered, and neither
   forward_close nor unregister_session was called. *)
C11_RegistrationErrorIsFatal ==
    (exc = "RegistrationError" \/ Raised("register_session"))
        => /\ pc = "failed"
           /\ Invoked("register_session") = 1
           /\ Invoked("forward_open") = 0
           /\ Invoked("forward_close") = 0
           /\ Invoked("unregister_session") = 0
           /\ i = 0
           /\ ~connected
           /\ delivered = 0

(* register_session raised RegistrationError and the run has ended *)
C11_Witness ==
    /\ exc = "RegistrationError"
    /\ pc = "failed"
    /\ ~registered
    /\ calls = <<"set_udp_receive_callback", "register_session!">>

(* the client state after each of close and unregister was called once and
   returned *)
ClosedOnce == ~connected

UnregisteredOnce == ~registered /\ ~connected

(* C12: close and unregister are idempotent.  Once forward_close has
   returned, the connection is closed however many more times it is called,
   and a call made when the connection is already closed changes nothing of
   the client and does not raise; the same for unregister_session and the
   session. *)
C12_TeardownIdempotent ==
    /\ [](Returned("forward_close") => ClosedOnce)
    /\ [](Returned("unregister_session") => UnregisteredOnce)
    /\ [][/\ (~connected /\ Invoked("forward_close")' > Invoked("forward_close"))
               => UNCHANGED clientVars /\ calls'[Len(calls')] = "forward_close"
          /\ (~registered /\ Invoked("unregister_session")' > Invoked("unregister_session"))
               => UNCHANGED clientVars /\ calls'[Len(calls')] = "unregister_session"]_vars

(* close and unregister have each been called twice and returned *)
C12_Witness ==
    /\ calls = <<"set_udp_receive_callback", "register_session", "forward_open",
                 "forward_close", "forward_close", "unregister_session", "unregister_session">>
    /\ ~connected
    /\ ~registered

----------------------------------------------------------------------------
(* C13: the payload is in the cache before the decision and stays there.
   When an invocation starts, t_o_iodata already holds its payload; nothing
   but the next arrival changes t_o_iodata; so after a single datagram p the
   cache holds p while p is processed and afterwards, with one send of 0xAC
   when p qualifies and none otherwise. *)
C13_CacheHoldsLatestPayload ==
    /\ [][/\ InvocationStarts =>
                \E p \in Payloads : /\ threads' = threads (+) SetToBag({Invocation("test", p)})
                                    /\ t_o_iodata' = p
          /\ delivered' = delivered => t_o_iodata' = t_o_iodata]_vars
    /\ [](delivered = 1 =>
            /\ \A r \in BagToSet(threads) : r.data = t_o_iodata
            /\ \A k \in DOMAIN sent : sent[k].data = t_o_iodata /\ sent[k].ack = <<172>>
            /\ threads = EmptyBag => Len(sent) = (IF Qualifies(t_o_iodata) THEN 1 ELSE 0))

(* scenario A: b'\x01' arrived, 0xAC was sent and the cache holds b'\x01' *)
C13_Witness ==
    /\ delivered = 1
    /\ threads = EmptyBag
    /\ t_o_iodata = <<1>>
    /\ sent = << [ack |-> <<172>>, ok |-> TRUE, data |-> <<1>>] >>

(* C14: Ignore has no side effects.  Every step of an invocation whose
   payload is empty or has bit 0 of its first byte clear goes from the test
   to the else branch and from there to the return, without an exception,
   and changes no send log, no cache, nothing of the client and nothing of
   main(); no such invocation is ever at the send. *)
C14_IgnoreHasNoEffect ==
    /\ [][\A r \in BagToSet(threads) :
            (~Qualifies(r.data) /\ CopiesIn(r, threads') < CopiesIn(r, threads))
                => /\ UNCHANGED <<mainVars, clientVars, t_o_iodata, sent>>
                   /\ r.pc = "test" => threads' = Moved(r, "else")
                   /\ r.pc = "else" => threads' = Ended(r)
                   /\ r.pc \in {"test", "else"}]_vars
    /\ [](\A k \in DOMAIN sent : Qualifies(sent[k].data))

(* the empty payload and b'\x02' have both been ignored: nothing was sent *)
C14_Witness ==
    /\ delivered = 2
    /\ \E r \in BagToSet(threads) : r.pc = "else" /\ r.data = <<>>
    /\ \E r \in BagToSet(threads) : r.pc = "else" /\ r.data = <<2>>
    /\ sent = <<>>

(* C16: the cache is last-write-wins and atomic.  Every change of t_o_iodata
   is one arrival replacing the whole value by one payload; the read of
   line 61 returns the value the cache holds at that moment, which is the
   empty default before the first arrival and afterwards exactly the payload
   of the latest completed write, all of its bytes, never a mixture; the
   line then prints the first 8 bytes of what it read. *)
C16_ReadReturnsLastWrite ==
    [][/\ t_o_iodata' # t_o_iodata =>
            /\ delivered' = delivered + 1
            /\ t_o_iodata' \in Payloads
       /\ (pc = "loop" /\ pc' = "sleep") =>
            /\ lastRead' = t_o_iodata
            /\ delivered = 0 => lastRead' = <<>>
            /\ delivered > 0 => lastRead' \in Payloads
            /\ Printed' = Take(t_o_iodata, PrintWidth)]_vars

(* the 9-byte payload overwrote b'\x01' and the loop then read all 9 bytes *)
C16_Witness ==
    /\ pc = "sleep"
    /\ delivered = 2
    /\ \E k \in DOMAIN sent : sent[k].data = <<1>>
    /\ t_o_iodata = <<1, 1, 2, 3, 4, 5, 6, 7, 9>>
    /\ lastRead = t_o_iodata
    /\ Len(Printed) = 8

(* The datagram whose acknowledgment this step sends is the latest arrival
   and the only datagram with that payload, so every other invocation in
   flight was started before its invocation. *)
SendsForLatest(d) ==
    /\ d = t_o_iodata
    /\ \A k \in DOMAIN sent : sent[k].data # d
    /\ \A r \in BagToSet(threads) : r.data = d => (r.pc = "send" /\ CopiesIn(r, threads) = 1)

(* C15: acknowledgments are sent in the order in which the dispatcher started
   processing their datagrams, also with overlapping invocations: when the
   acknowledgment of the latest datagram is sent, no qualifying datagram
   whose invocation started earlier is still waiting for its send. *)
C15_AcksInProcessingOrder ==
    [][SendStep =>
          LET d == sent'[Len(sent')].data
          IN  SendsForLatest(d) =>
                  \A r \in BagToSet(threads') :
                      (r.data # d /\ Qualifies(r.data)) => r.pc \notin {"test", "send"}]_vars

(* the try block of lines 57-64 *)
InLoop == pc \in {"loop", "sleep", "except"}

(* the finally block of lines 65-69 *)
InFinally == pc \in {"forward_close", "unregister_session", "print_done"}

(* C17: the loop ends after at most 30 waits or at the first interruption,
   however many datagrams arrive, and from there the run goes on to its
   finished state with the connection closed and the session unregistered:
   the wait counter never passes 30, a receive step never moves main(), an
   interruption leaves the loop for good, and once the loop was left without
   a pending error no step of the finally block ends the run as failed. *)
C17_LoopEndsAndRunFinishes ==
    /\ [](i <= LoopCount)
    /\ [](pc = "done" => ~connected /\ ~registered)
    /\ [][/\ (pc = "sleep" /\ pc' = "loop") => i' = i + 1
          /\ (pc = "loop" /\ i = LoopCount /\ pc' # pc) => pc' \in {"forward_close", "except"}
          /\ (pc = "except" /\ pc' # pc) => pc' = "forward_close"
          /\ (InFinally /\ pc' # pc) => pc' \notin {"loop", "sleep", "except"}
          /\ (InFinally /\ exc = "none") => pc' # "failed"]_vars

(* C18: the foreground loop only reads shared state.  A step of main() in
   the try block leaves the cache, the send log, the invocations and the
   client's session and connection state as they are; every change of the
   cache is an arrival on the receive path and every send is the step of a
   callback invocation at line 33, and neither moves main(). *)
C18_ForegroundOnlyReads ==
    [][/\ (InLoop /\ mainVars' # mainVars) => UNCHANGED <<clientVars, recvVars>>
       /\ t_o_iodata' # t_o_iodata =>
            /\ delivered' = delivered + 1
            /\ UNCHANGED mainVars
       /\ sent' # sent =>
            /\ \E r \in BagToSet(threads) :
                    /\ r.pc = "send"
                    /\ threads' \in {Moved(r, "sent"), Ended(r)}
            /\ UNCHANGED mainVars]_vars

(* the loop has read the cache the receive path wrote, and an acknowledgment
   has been sent meanwhile *)
C18_Witness ==
    /\ pc = "sleep"
    /\ i = 1
    /\ lastRead = <<1>>
    /\ Len(sent) = 1
    /\ registered /\ connected

(* C19: the finally block belongs to the try block, which is entered only
   after register_session and forward_open both returned.  forward_close
   and unregister_session are called, and the loop is run, only on such
   runs; a run in which one of the two calls raised or was interrupted has
   ended as failed with neither teardown call made. *)
C19_TeardownOnlyAfterOpen ==
    /\ (Invoked("forward_close") > 0 \/ Invoked("unregister_session") > 0 \/ InLoop \/ InFinally
            \/ pc = "done")
          => Returned("register_session") /\ Returned("forward_open")
    /\ (Raised("register_session") \/ Raised("forward_open"))
          => /\ pc = "failed"
             /\ Invoked("forward_close") = 0
             /\ Invoked("unregister_session") = 0
             /\ i = 0

(* forward_open was interrupted after the connection was established: the
   run has ended with the session registered and the connection open *)
C19_Witness ==
    /\ pc = "failed"
    /\ exc = "KeyboardInterrupt"
    /\ calls = <<"set_udp_receive_callback", "register_session", "forward_open!">>
    /\ registered /\ connected

(* C20: only KeyboardInterrupt raised in the loop is absorbed, and the run
   then finishes normally; with any other error of the loop pending,
   forward_close runs, then unregister_session runs, and then the run ends
   as failed. *)
C20_OnlyInterruptAbsorbed ==
    [][/\ (pc' = "except" /\ pc' # pc) => (pc \in {"loop", "sleep"} /\ exc' = "KeyboardInterrupt")
       /\ (pc = "except" /\ pc' # pc) => exc' = "none"
       /\ (exc' = "none" /\ exc # "none") => pc = "except"
       /\ pc' = "done" => exc = "none"
       /\ (pc = "forward_close" /\ exc = "Error" /\ pc' # pc) =>
            /\ calls' = Append(calls, "forward_close")
            /\ pc' = "unregister_session"
       /\ (pc = "unregister_session" /\ exc = "Error" /\ pc' # pc) =>
            /\ Invoked("unregister_session")' = 1
            /\ calls[Len(calls)] = "forward_close"
       /\ (pc = "print_done" /\ exc = "Error" /\ pc' # pc) => pc' = "failed"]_vars

====
